---- MODULE Spec2Model ----
(***************************************************************************)
(* One-way directory mirror (src/main.py): main() checks that the two     *)
(* roots exist and then loops forever over synchronize_folders (a walk of *)
(* the source tree that creates and recopies, then a walk of the replica  *)
(* tree that deletes orphans), write_stats_to_logging_file and time.sleep.*)
(*                                                                         *)
(* The two directory trees are functions from paths to entries.  A path   *)
(* is a sequence of names relative to its root, <<>> being the root.      *)
(* A file carries a content identifier (its size is SizeOf of it) and a   *)
(* modification time; a directory carries a modification time, and its    *)
(* st_size is the file system's dirSize.                                  *)
(*                                                                         *)
(* Modelling decisions:                                                    *)
(*  - Path.rglob('*') is lazy: the entries of one directory are listed    *)
(*    into a snapshot and yielded one by one, and only afterwards is the  *)
(*    directory scanned again for the subdirectories to descend into.     *)
(*    The order of siblings is os.scandir's, i.e. arbitrary.              *)
(*  - A file system primitive (copy2, mkdir, unlink, rmtree) can fail for *)
(*    a reason outside the trees (permissions, I/O); such a failure       *)
(*    raises and leaves the tree as it was.  At most MaxFailures of these *)
(*    are injected in one behaviour.  Failures that follow from the trees *)
(*    (missing parent, a file where a directory is needed) are computed.  *)
(*  - shutil.copy2 preserves the modification time exactly.               *)
(*  - Now is the clock value a directory gets when an entry is added to   *)
(*    or removed from it; no timestamp in the trees lies after it.        *)
(*  - Nothing but this process modifies the trees.                        *)
(***************************************************************************)
EXTENDS Integers, Sequences, FiniteSets, TLC

\* ---------------------------------------------------------------- bounds
\* modification times are 1..MaxMTime
MaxMTime == 2

\* content identifiers are 1..MaxContent
MaxContent == 3

\* injected primitive failures per behaviour
MaxFailures == 1

\* the count of completed passes saturates here
MaxPasses == 2

\* INTERVAL_TIME is -MaxAmount, 0 or MaxAmount
MaxAmount == 1

\* ------------------------------------------------------------ path space
Root == <<>>

\* relative paths an entry can have before the first pass
InitPaths == { <<"a">>, <<"a", "b">> }

Last(p) == p[Len(p)]

\* copy2 onto a directory places the file inside it under the source's name
Paths == InitPaths \cup { p \o <<Last(p)>> : p \in InitPaths }

AllPaths == {Root} \cup Paths

Parent(p) == SubSeq(p, 1, Len(p) - 1)

IsPrefix(p, q) == Len(p) <= Len(q) /\ SubSeq(q, 1, Len(p)) = p

\* proper ancestors of p, the root included
Ancestors(p) == { q \in AllPaths : IsPrefix(q, p) /\ q # p }

\* -------------------------------------------------------------- entries
NoEntry == [kind |-> "none", content |-> 0, mtime |-> 0]

File(c, t) == [kind |-> "file", content |-> c, mtime |-> t]

Dir(t) == [kind |-> "dir", content |-> 0, mtime |-> t]

MTimes == 1..MaxMTime

Contents == 1..MaxContent

Now == MaxMTime

\* length in bytes of a content: contents 1 and 2 have the same length
SizeOf(c) == (c + 1) \div 2

\* a directory's st_size may equal a file's size or no file's size
DirSizes == { SizeOf(1), SizeOf(MaxContent) + 1 }

\* -------------------------------------------------------------- counters
Keys == { "Files created", "Files changed/copied", "Directories created",
          "Files deleted", "Directories deleted" }

ZeroStats == [k \in Keys |-> 0]

Incr(st, k) == [st EXCEPT ![k] = @ + 1]

VARIABLES
    src,        \* source tree: AllPaths -> entry
    rep,        \* replica tree: AllPaths -> entry
    dirSize,    \* st_size the file system reports for a directory
    args,       \* parsed command line, NoArgs once main() has read it
    interval,   \* seconds handed to time.sleep
    pc,         \* position of main()
    cur,        \* directory whose entries rglob is yielding
    pending,    \* entries of cur listed and not yet yielded
    stack,      \* directories rglob still has to descend into
    changes_stats,  \* the five counters
    failures,   \* primitive failures injected so far
    errors,     \* logger.error lines of the current pass
    failed,     \* primitives that raised in the current pass
    delFailed,  \* unlink/rmtree calls that raised in the current pass
    succ,       \* primitives that succeeded in the current pass, by kind
    reported,   \* the counters of the last stats line
    emitted,    \* stats lines emitted since the current pass began
    walksDone,  \* tree walks finished since the current pass began
    visitedSrc, \* source entries yielded in the current pass
    visitedRep, \* replica entries yielded in the current pass
    ev,         \* what the last visit did
    copied,     \* replica paths copy2 has written in the current pass
    passes,     \* completed passes, saturating at MaxPasses
    acted,      \* a file system primitive has been called
    startupErr, \* root named by the startup error, "none" if none
    emptyAtStart  \* the replica root held nothing when the pass began

fsVars == <<src, rep, dirSize>>
cfgVars == <<args, interval>>
walkVars == <<cur, pending, stack>>
passGhost == <<errors, failed, delFailed, succ, visitedSrc, visitedRep, ev,
               copied>>
runGhost == <<failures, reported, emitted, walksDone, passes, acted,
              startupErr, emptyAtStart>>

vars == <<src, rep, dirSize, args, interval, pc, cur, pending, stack,
          changes_stats, failures, errors, failed, delFailed, succ, reported,
          emitted, walksDone, visitedSrc, visitedRep, ev, copied, passes,
          acted, startupErr, emptyAtStart>>

\* ------------------------------------------------------ path predicates
\* Path.exists(): stat succeeds; ENOENT and ENOTDIR give False
Exists(tree, p) == p \in AllPaths /\ tree[p].kind # "none"

IsFile(tree, p) == p \in AllPaths /\ tree[p].kind = "file"

IsDir(tree, p) == p \in AllPaths /\ tree[p].kind = "dir"

\* mutant: a directory is listed with everything below it, in any order
ChildrenDeep(tree, d) ==
    { p \in Paths : IsPrefix(d, p) /\ p # d /\ tree[p].kind # "none" }

\* os.scandir(d): the entries directly inside d
Children(tree, d) == { p \in Paths : Parent(p) = d /\ tree[p].kind # "none" }

SubDirs(tree, d) == { p \in Children(tree, d) : tree[p].kind = "dir" }

\* stat().st_size
StSize(e) == IF e.kind = "dir" THEN dirSize ELSE SizeOf(e.content)

\* an entry was added to or removed from directory d
\* (the roots' own timestamps are never read and are left alone)
Touch(tree, d) ==
    IF d # Root /\ IsDir(tree, d) THEN [tree EXCEPT ![d].mtime = Now] ELSE tree

\* a tree is well formed when every entry lies in a directory
WellFormed(tree) ==
    \A p \in Paths : tree[p].kind # "none" => tree[Parent(p)].kind = "dir"

\* ------------------------------------------------- file system primitives
\* each returns whether it succeeded and the replica tree it leaves
Raised(tree) == [ok |-> FALSE, fs |-> tree]

Done(tree) == [ok |-> TRUE, fs |-> tree]

\* shutil.copy2(source_file, replica_source_file): a destination that is a
\* directory receives the file under the source's base name; the bytes
\* and the modification time are those of the source
CopyDst(p, tree) == IF IsDir(tree, p) THEN p \o <<Last(p)>> ELSE p

Copy2(s, p, tree) ==
    LET dst == CopyDst(p, tree)
    IN  IF dst \notin AllPaths \/ ~IsDir(tree, Parent(dst)) \/ IsDir(tree, dst)
        THEN Raised(tree)
        ELSE LET written == [tree EXCEPT ![dst] = File(s.content, s.mtime)]
             IN  Done(IF Exists(tree, dst) THEN written
                      ELSE Touch(written, Parent(dst)))

\* replica_source_file.mkdir(parents=True)
Mkdir(p, tree) ==
    IF Exists(tree, p) \/ \E a \in Ancestors(p) : IsFile(tree, a)
    THEN Raised(tree)
    ELSE LET missing == { q \in Ancestors(p) \cup {p} : ~Exists(tree, q) }
             top == CHOOSE q \in missing : \A r \in missing : Len(q) <= Len(r)
             made == [q \in AllPaths |->
                        IF q \in missing THEN Dir(Now) ELSE tree[q]]
         IN  Done(IF top = Root THEN made ELSE Touch(made, Parent(top)))

\* replica_file.unlink()
Unlink(p, tree) ==
    IF ~IsFile(tree, p) THEN Raised(tree)
    ELSE Done(Touch([tree EXCEPT ![p] = NoEntry], Parent(p)))

\* mutant: only the directory itself is removed
RmtreeShallow(p, tree) ==
    IF ~IsDir(tree, p) THEN Raised(tree)
    ELSE Done(Touch([tree EXCEPT ![p] = NoEntry], Parent(p)))

\* shutil.rmtree(replica_file): the directory and everything below it
Rmtree(p, tree) ==
    IF ~IsDir(tree, p) THEN Raised(tree)
    ELSE Done(Touch([q \in AllPaths |->
                        IF IsPrefix(p, q) THEN NoEntry ELSE tree[q]],
                    Parent(p)))

\* ------------------------------------------------------ change detection
\* mutant: the modification times are not compared
NeedsCopySizeOnly(s, r) == StSize(s) # StSize(r)

\* mutant: an equally old replica is recopied too
NeedsCopyNotOlder(s, r) == StSize(s) # StSize(r) \/ s.mtime >= r.mtime

\* the condition of the elif at line 145
NeedsCopy(s, r) == StSize(s) # StSize(r) \/ s.mtime > r.mtime

\* mutant: a file missing in the replica is handled by the elif branch
SourceActionNoCreate(p) ==
    IF IsFile(src, p) THEN "UPDATE_FILE"
    ELSE IF IsDir(src, p) /\ ~Exists(rep, p) THEN "CREATE_DIR"
    ELSE "NONE"

\* what the body of the source walk decides for the entry at p
SourceAction(p) ==
    IF IsFile(src, p)
    THEN IF ~Exists(rep, p) THEN "CREATE_FILE"
         ELSE IF NeedsCopy(src[p], rep[p]) THEN "UPDATE_FILE"
         ELSE "NONE"
    ELSE IF IsDir(src, p) /\ ~Exists(rep, p) THEN "CREATE_DIR"
    ELSE "NONE"

\* mutant: orphan directories are not removed
ReplicaActionFilesOnly(p) ==
    IF IsFile(rep, p) /\ ~Exists(src, p) THEN "DELETE_FILE" ELSE "NONE"

\* mutant: an entry is an orphan when the source has no entry of its kind
ReplicaActionKindStrict(p) ==
    IF IsFile(rep, p) /\ ~IsFile(src, p) THEN "DELETE_FILE"
    ELSE IF IsDir(rep, p) /\ ~IsDir(src, p) THEN "DELETE_DIR"
    ELSE "NONE"

\* what the body of the replica walk decides for the entry at p
ReplicaAction(p) ==
    IF IsFile(rep, p) /\ ~Exists(src, p) THEN "DELETE_FILE"
    ELSE IF IsDir(rep, p) /\ ~Exists(src, p) THEN "DELETE_DIR"
    ELSE "NONE"

Actions == { "CREATE_FILE", "UPDATE_FILE", "CREATE_DIR",
             "DELETE_FILE", "DELETE_DIR" }

\* mutant: the two counters of the copy branches are exchanged
KeyOfSwapped(a) ==
    CASE a = "CREATE_FILE" -> "Files changed/copied"
      [] a = "UPDATE_FILE" -> "Files created"
      [] a = "CREATE_DIR"  -> "Directories created"
      [] a = "DELETE_FILE" -> "Files deleted"
      [] a = "DELETE_DIR"  -> "Directories deleted"

\* the counter each action increments
KeyOf(a) ==
    CASE a = "CREATE_FILE" -> "Files created"
      [] a = "UPDATE_FILE" -> "Files changed/copied"
      [] a = "CREATE_DIR"  -> "Directories created"
      [] a = "DELETE_FILE" -> "Files deleted"
      [] a = "DELETE_DIR"  -> "Directories deleted"

\* the primitive each action calls on the replica
Perform(a, p) ==
    CASE a \in {"CREATE_FILE", "UPDATE_FILE"} -> Copy2(src[p], p, rep)
      [] a = "CREATE_DIR"  -> Mkdir(p, rep)
      [] a = "DELETE_FILE" -> Unlink(p, rep)
      [] a = "DELETE_DIR"  -> Rmtree(p, rep)
      [] OTHER -> Done(rep)

\* mutant: the counter is incremented before the primitive is called
CountedAlways(st, a, ok) == IF a # "NONE" THEN Incr(st, KeyOf(a)) ELSE st

\* try: primitive; logger.info; counter += 1  except: logger.error
Counted(st, a, ok) == IF a # "NONE" /\ ok THEN Incr(st, KeyOf(a)) ELSE st

Logged(n, a, ok) == IF a # "NONE" /\ ~ok THEN n + 1 ELSE n

\* ------------------------------------------------------------ the walks
\* the orders in which os.scandir may list the set S
Orderings(S) ==
    { f \in [1..Cardinality(S) -> S] :
        \A i, j \in 1..Cardinality(S) : i # j => f[i] # f[j] }

NoEv == [walk |-> "none", path |-> Root, action |-> "NONE", ok |-> TRUE,
         gone |-> 0]

\* the number of entries of tree that are no longer in after
Gone(tree, after) ==
    Cardinality({ q \in Paths : Exists(tree, q) /\ ~Exists(after, q) })

\* for source_file in source_folder_path.rglob('*'): one iteration
VisitSource(p, fail) ==
    /\ pc = "scanSrc"
    /\ p \in pending
    /\ LET a == SourceAction(p)
           r == IF fail THEN Raised(rep) ELSE Perform(a, p)
       IN  /\ fail => (a # "NONE" /\ failures < MaxFailures)
           /\ rep' = r.fs
           /\ changes_stats' = Counted(changes_stats, a, r.ok)
           /\ errors' = Logged(errors, a, r.ok)
           /\ failed' = IF r.ok THEN failed ELSE failed + 1
           /\ succ' = IF a # "NONE" /\ r.ok THEN Incr(succ, KeyOf(a)) ELSE succ
           /\ ev' = [walk |-> "source", path |-> p, action |-> a, ok |-> r.ok,
                     gone |-> Gone(rep, r.fs)]
           /\ copied' = IF a \in {"CREATE_FILE", "UPDATE_FILE"} /\ r.ok
                         THEN copied \cup {CopyDst(p, rep)} ELSE copied
           /\ acted' = (acted \/ a # "NONE")
    /\ failures' = IF fail THEN failures + 1 ELSE failures
    /\ pending' = pending \ {p}
    /\ visitedSrc' = visitedSrc \cup {p}
    /\ UNCHANGED <<src, dirSize, args, interval, pc, cur, stack, delFailed,
                   reported, emitted, walksDone, visitedRep, passes,
                   startupErr,
                   emptyAtStart>>

\* rglob has yielded every entry of cur and descends into a subdirectory
SourceDescend ==
    /\ pc = "scanSrc"
    /\ pending = {}
    /\ \E order \in Orderings(SubDirs(src, cur)) :
          LET s == order \o stack
          IN  /\ s # <<>>
              /\ cur' = Head(s)
              /\ stack' = Tail(s)
              /\ pending' = Children(src, Head(s))
    /\ UNCHANGED <<fsVars, cfgVars, pc, changes_stats, passGhost, runGhost>>

\* the source walk is exhausted: the replica walk begins (line 160)
SourceWalkDone ==
    /\ pc = "scanSrc"
    /\ pending = {}
    /\ SubDirs(src, cur) = {}
    /\ stack = <<>>
    /\ pc' = "scanRep"
    /\ cur' = Root
    /\ pending' = Children(rep, Root)
    /\ stack' = <<>>
    /\ walksDone' = walksDone + 1
    /\ UNCHANGED <<fsVars, cfgVars, changes_stats, passGhost, failures,
                   reported, emitted, passes, acted, startupErr,
                   emptyAtStart>>

\* mutant: a removal also empties the source directory beside the orphan
VisitReplicaBothWays(p, fail) ==
    /\ pc = "scanRep"
    /\ p \in pending
    /\ LET a == ReplicaAction(p)
           r == IF fail THEN Raised(rep) ELSE Perform(a, p)
       IN  /\ fail => (a # "NONE" /\ failures < MaxFailures)
           /\ rep' = r.fs
           /\ src' = IF a # "NONE" /\ r.ok
                      THEN [q \in AllPaths |->
                              IF q # Root /\ IsPrefix(Parent(p), q)
                              THEN NoEntry ELSE src[q]]
                      ELSE src
           /\ changes_stats' = Counted(changes_stats, a, r.ok)
           /\ errors' = Logged(errors, a, r.ok)
           /\ failed' = IF r.ok THEN failed ELSE failed + 1
           /\ delFailed' = IF r.ok THEN delFailed ELSE delFailed + 1
           /\ succ' = IF a # "NONE" /\ r.ok THEN Incr(succ, KeyOf(a)) ELSE succ
           /\ ev' = [walk |-> "replica", path |-> p, action |-> a, ok |-> r.ok,
                     gone |-> Gone(rep, r.fs)]
           /\ acted' = (acted \/ a # "NONE")
    /\ failures' = IF fail THEN failures + 1 ELSE failures
    /\ pending' = pending \ {p}
    /\ visitedRep' = visitedRep \cup {p}
    /\ UNCHANGED <<dirSize, args, interval, pc, cur, stack, reported,
                   emitted, walksDone, visitedSrc, copied, passes, startupErr,
                   emptyAtStart>>

\* for replica_file in replica_folder_path.rglob('*'): one iteration
VisitReplica(p, fail) ==
    /\ pc = "scanRep"
    /\ p \in pending
    /\ LET a == ReplicaAction(p)
           r == IF fail THEN Raised(rep) ELSE Perform(a, p)
       IN  /\ fail => (a # "NONE" /\ failures < MaxFailures)
           /\ rep' = r.fs
           /\ changes_stats' = Counted(changes_stats, a, r.ok)
           /\ errors' = Logged(errors, a, r.ok)
           /\ failed' = IF r.ok THEN failed ELSE failed + 1
           /\ delFailed' = IF r.ok THEN delFailed ELSE delFailed + 1
           /\ succ' = IF a # "NONE" /\ r.ok THEN Incr(succ, KeyOf(a)) ELSE succ
           /\ ev' = [walk |-> "replica", path |-> p, action |-> a, ok |-> r.ok,
                     gone |-> Gone(rep, r.fs)]
           /\ acted' = (acted \/ a # "NONE")
    /\ failures' = IF fail THEN failures + 1 ELSE failures
    /\ pending' = pending \ {p}
    /\ visitedRep' = visitedRep \cup {p}
    /\ UNCHANGED <<src, dirSize, args, interval, pc, cur, stack, reported,
                   emitted, walksDone, visitedSrc, copied, passes, startupErr,
                   emptyAtStart>>

ReplicaDescend ==
    /\ pc = "scanRep"
    /\ pending = {}
    /\ \E order \in Orderings(SubDirs(rep, cur)) :
          LET s == order \o stack
          IN  /\ s # <<>>
              /\ cur' = Head(s)
              /\ stack' = Tail(s)
              /\ pending' = Children(rep, Head(s))
    /\ UNCHANGED <<fsVars, cfgVars, pc, changes_stats, passGhost, runGhost>>

\* synchronize_folders returns
ReplicaWalkDone ==
    /\ pc = "scanRep"
    /\ pending = {}
    /\ SubDirs(rep, cur) = {}
    /\ stack = <<>>
    /\ pc' = "reporting"
    /\ walksDone' = walksDone + 1
    /\ UNCHANGED <<fsVars, cfgVars, walkVars, changes_stats, passGhost,
                   failures, reported, emitted, passes, acted, startupErr,
                   emptyAtStart>>

\* ---------------------------------------------------------- the scheduler
NoArgs == [interval |-> 0, days |-> FALSE, minutes |-> FALSE]

\* mutant: the days flag multiplies by the seconds of an hour
IntervalOfHours(a) == IF a.days THEN a.interval * 60 * 60 ELSE a.interval * 60

\* interval = args.interval[0] * 24 * 60 * 60 if args.days else * 60
IntervalOf(a) == IF a.days THEN a.interval * 24 * 60 * 60 ELSE a.interval * 60

\* mutant: one existing root is enough
CheckFoldersEither(s, r) ==
    IF Exists(s, Root) \/ Exists(r, Root) THEN [exist |-> TRUE, err |-> "none"]
    ELSE [exist |-> FALSE, err |-> "source"]

\* check_folders_existence: the result and the root the error names
CheckFoldersExistence(s, r) ==
    IF Exists(s, Root) /\ Exists(r, Root) THEN [exist |-> TRUE, err |-> "none"]
    ELSE IF Exists(s, Root) THEN [exist |-> FALSE, err |-> "replica"]
    ELSE [exist |-> FALSE, err |-> "source"]

\* mutant: the counters are not reset
ZeroedNot(st) == st

\* mutant: the last key of the dictionary is skipped
ZeroedButOne(st) ==
    [k \in DOMAIN st |-> IF k = "Directories deleted" THEN st[k] ELSE 0]

\* for key in changes_stats: changes_stats[key] = 0
Zeroed(st) == [k \in DOMAIN st |-> 0]

\* main() up to the first iteration of while True; args is not read after
\* line 191, and is dropped so that states differing only in it coincide
Startup ==
    /\ pc = "init"
    /\ interval' = IntervalOf(args)
    /\ args' = NoArgs
    /\ LET c == CheckFoldersExistence(src, rep)
       IN  /\ startupErr' = c.err
           /\ emptyAtStart' = (Children(rep, Root) = {})
           /\ IF c.exist
              THEN /\ pc' = "scanSrc"
                   /\ cur' = Root
                   /\ pending' = Children(src, Root)
                   /\ stack' = <<>>
              ELSE /\ pc' = "stopped"
                   /\ UNCHANGED walkVars
    /\ UNCHANGED <<fsVars, changes_stats, passGhost, failures, reported,
                   emitted, walksDone, passes, acted>>

\* write_stats_to_logging_file(changes_stats, logger)
Report ==
    /\ pc = "reporting"
    /\ reported' = changes_stats
    /\ changes_stats' = Zeroed(changes_stats)
    /\ emitted' = emitted + 1
    /\ passes' = IF passes < MaxPasses THEN passes + 1 ELSE passes
    /\ pc' = "sleeping"
    /\ UNCHANGED <<fsVars, cfgVars, walkVars, passGhost, failures, walksDone,
                   acted, startupErr,
                   emptyAtStart>>

\* mutant: the next iteration reports without a pass
SleepToReport ==
    /\ pc = "sleeping"
    /\ interval >= 0
    /\ pc' = "reporting"
    /\ UNCHANGED <<fsVars, cfgVars, walkVars, changes_stats, passGhost,
                   runGhost>>

\* time.sleep(interval) returns and the next iteration begins
Sleep ==
    /\ pc = "sleeping"
    /\ interval >= 0
    /\ pc' = "scanSrc"
    /\ cur' = Root
    /\ pending' = Children(src, Root)
    /\ stack' = <<>>
    /\ errors' = 0
    /\ failed' = 0
    /\ delFailed' = 0
    /\ succ' = ZeroStats
    /\ visitedSrc' = {}
    /\ visitedRep' = {}
    /\ ev' = NoEv
    /\ copied' = {}
    /\ emptyAtStart' = (Children(rep, Root) = {})
    /\ emitted' = 0
    /\ walksDone' = 0
    /\ UNCHANGED <<fsVars, cfgVars, changes_stats, failures, reported, passes,
                   acted, startupErr>>

\* time.sleep raises ValueError for a negative length: main() ends
SleepRaises ==
    /\ pc = "sleeping"
    /\ interval < 0
    /\ pc' = "crashed"
    /\ UNCHANGED <<fsVars, cfgVars, walkVars, changes_stats, passGhost,
                   runGhost>>

\* ------------------------------------------------------- initial states
\* the trees a root can hold: a missing root holds nothing
Trees(dirTimes) ==
    LET Entries == {NoEntry} \cup { File(c, t) : c \in Contents, t \in MTimes }
                             \cup { Dir(t) : t \in dirTimes }
        Extend(f, root) == [p \in AllPaths |->
                              IF p = Root THEN root
                              ELSE IF p \in InitPaths THEN f[p] ELSE NoEntry]
    IN  { t \in { Extend(f, Dir(1)) : f \in [InitPaths -> Entries] } :
            WellFormed(t) }
        \cup { [p \in AllPaths |-> NoEntry] }

\* type=int accepts any integer: a negative, zero and a positive one
Amounts == { 0 - MaxAmount, 0, MaxAmount }

ArgSets == [interval : Amounts, days : BOOLEAN, minutes : BOOLEAN]

\* the source's directory timestamps are never read: one value stands for all
Init ==
    /\ src \in Trees({1})
    /\ rep \in Trees(MTimes)
    /\ dirSize \in DirSizes
    /\ args \in ArgSets
    /\ interval = 0
    /\ pc = "init"
    /\ cur = Root
    /\ pending = {}
    /\ stack = <<>>
    /\ changes_stats = ZeroStats
    /\ failures = 0
    /\ errors = 0
    /\ failed = 0
    /\ delFailed = 0
    /\ succ = ZeroStats
    /\ reported = ZeroStats
    /\ emitted = 0
    /\ walksDone = 0
    /\ visitedSrc = {}
    /\ visitedRep = {}
    /\ ev = NoEv
    /\ copied = {}
    /\ passes = 0
    /\ acted = FALSE
    /\ startupErr = "none"
    /\ emptyAtStart = FALSE

Next ==
    \/ Startup
    \/ \E p \in Paths, fail \in BOOLEAN : VisitSource(p, fail)
    \/ SourceDescend
    \/ SourceWalkDone
    \/ \E p \in Paths, fail \in BOOLEAN : VisitReplica(p, fail)
    \/ ReplicaDescend
    \/ ReplicaWalkDone
    \/ Report
    \/ Sleep
    \/ SleepRaises

Spec == Init /\ [][Next]_vars

\* the walks do not read the interval: for the progress of a pass the
\* command line gives minutes only, a negative and a positive amount
FairInit == Init /\ ~args.days /\ ~args.minutes /\ args.interval # 0

\* the process is the only actor and runs whenever it has a step to take
FairSpec == FairInit /\ [][Next]_vars /\ WF_vars(Next)

TypeOK ==
    /\ pc \in {"init", "stopped", "scanSrc", "scanRep", "reporting",
                "sleeping", "crashed"}
    /\ WellFormed(rep)
    /\ WellFormed(src)

\* ---------------------------------------------------------------- claims
PassDone == pc = "reporting"

\* one iteration of the source walk is taken for p
SourceVisitStep(p) == pc = "scanSrc" /\ p \in pending /\ p \notin pending'

\* C1: after a pass without an injected failure every source entry has a
\* replica entry of the same kind at the same relative path
C1_Completeness ==
    (PassDone /\ failures = 0) =>
        \A p \in Paths : Exists(src, p) => rep[p].kind = src[p].kind

\* C2: a pass that follows a completed pass, no primitive having failed,
\* performs no action and reports five zero counters
C2_Idempotence ==
    (PassDone /\ passes >= 1 /\ failures = 0) =>
        (changes_stats = ZeroStats /\ succ = ZeroStats)

\* C3: after a pass in which no delete failed no replica entry, at any
\* depth, lacks its mirrored source path
C3_OrphanRemoval ==
    (PassDone /\ delFailed = 0) =>
        \A p \in Paths : Exists(rep, p) => Exists(src, p)

\* a pass removed an orphan directory with what it held, and a file that
\* the source walk of the same pass had placed in the replica
C3_Witness ==
    /\ PassDone
    /\ delFailed = 0
    /\ succ["Directories deleted"] > 0
    /\ \E p \in copied : ~Exists(rep, p)

\* C4 as stated: after a pass without a failed action every replica file
\* has the content and the modification time of the source file at its path
C4_ContentAndMtimeMatch ==
    (PassDone /\ failed = 0) =>
        \A p \in Paths : (IsFile(rep, p) /\ IsFile(src, p)) =>
            (rep[p].content = src[p].content /\ rep[p].mtime = src[p].mtime)

\* C4 amended: after a pass without a failed action every replica file has
\* the size of the source file at its path and is not older than it, and
\* has its content and modification time if the pass copied it
C4_SizeAndRecencyMatch ==
    (PassDone /\ failed = 0) =>
        \A p \in Paths : (IsFile(rep, p) /\ IsFile(src, p)) =>
            /\ SizeOf(rep[p].content) = SizeOf(src[p].content)
            /\ rep[p].mtime >= src[p].mtime
            /\ p \in copied => rep[p] = src[p]

\* a pass left a newer replica file of the same size and other content
C4_Witness ==
    /\ PassDone
    /\ failed = 0
    /\ \E p \in Paths :
          /\ IsFile(rep, p) /\ IsFile(src, p)
          /\ p \in visitedSrc
          /\ rep[p].content # src[p].content
          /\ rep[p].mtime > src[p].mtime

\* C5: visiting a source file whose replica path exists, copy2 is called
\* exactly when the sizes differ or the source is strictly newer; a copy
\* that succeeds places the source's bytes and time and adds one to Files
\* changed/copied only; otherwise replica and counters are left as they are
C5_ChangeDetection ==
    [][\A p \in Paths :
         (SourceVisitStep(p) /\ IsFile(src, p) /\ Exists(rep, p)) =>
            LET differs == StSize(src[p]) # StSize(rep[p])
                newer == src[p].mtime > rep[p].mtime
            IN  /\ (differs \/ newer) <=> ev'.action = "UPDATE_FILE"
                /\ (ev'.action = "UPDATE_FILE" /\ ev'.ok) =>
                      /\ rep'[CopyDst(p, rep)] = src[p]
                      /\ changes_stats' =
                            Incr(changes_stats, "Files changed/copied")
                /\ ~(differs \/ newer) =>
                      (rep' = rep /\ changes_stats' = changes_stats)
      ]_vars

\* the last visit recopied a file over an existing replica file
C5_Witness ==
    /\ pc = "scanSrc"
    /\ ev.walk = "source"
    /\ ev.action = "UPDATE_FILE"
    /\ ev.ok
    /\ rep[ev.path] = src[ev.path]

\* C6: a primitive that fails logs one error and changes no counter, the
\* walk goes on with the entries that remain, at the end of the pass every
\* source entry and every remaining replica entry has been visited, and a
\* pass in which a primitive failed reaches its report
C6_FailureIsolation ==
    /\ [][failed' = failed + 1 =>
            /\ errors' = errors + 1
            /\ changes_stats' = changes_stats
            /\ pc' = pc
            /\ pending' = pending \ {ev'.path}
            /\ cur' = cur /\ stack' = stack
         ]_vars
    /\ [](PassDone =>
            /\ visitedSrc = { p \in Paths : Exists(src, p) }
            /\ { p \in Paths : Exists(rep, p) } \subseteq visitedRep
            /\ errors = failed)
    /\ (failed > 0 /\ pc \in {"scanSrc", "scanRep"})
          ~> (pc = "sleeping" /\ failed > 0 /\ emitted = 1)

\* a pass with a failed primitive has reached its report
C6_Witness ==
    /\ pc = "sleeping"
    /\ failed > 0
    /\ emitted = 1
    /\ Cardinality(visitedSrc) + Cardinality(visitedRep) > 2

\* C7: each counter of a stats line is the number of actions of its kind
\* that succeeded in the pass of the same iteration
C7_StatsAccuracy == (pc = "sleeping") => reported = succ

\* the second stats line of a run reports an action
C7_Witness ==
    /\ pc = "sleeping"
    /\ passes = 2
    /\ reported # ZeroStats

CycleOrder ==
    { <<"init", "scanSrc">>, <<"init", "stopped">>, <<"scanSrc", "scanRep">>,
      <<"scanRep", "reporting">>, <<"reporting", "sleeping">>,
      <<"sleeping", "scanSrc">>, <<"sleeping", "crashed">> }

\* C8: main() moves source walk -> replica walk -> report -> sleep in that
\* order; a stats line is emitted once per pass, after both walks ended
C8_CycleOrder ==
    /\ [][pc' # pc => <<pc, pc'>> \in CycleOrder]_vars
    /\ [][emitted' # emitted /\ emitted' > 0 =>
            /\ pc = "reporting"
            /\ walksDone = 2
            /\ pending = {} /\ stack = <<>>
            /\ emitted' = 1
         ]_vars
    /\ [](pc \in {"scanSrc", "scanRep", "reporting"} => emitted = 0)
    /\ [](pc = "sleeping" => emitted = 1)

\* the second cycle has reached its sleep
C8_Witness == pc = "sleeping" /\ passes = 2 /\ walksDone = 2

\* C9: with a root missing at startup an error names a missing root, no
\* pass is begun, no primitive is called, no stats line is emitted and
\* main() has ended for good
C9_StartupFailure ==
    /\ []((~Exists(src, Root) \/ ~Exists(rep, Root)) =>
            /\ pc \in {"init", "stopped"}
            /\ ~acted
            /\ emitted = 0 /\ passes = 0
            /\ pc = "stopped" =>
                  /\ startupErr \in {"source", "replica"}
                  /\ startupErr = "source" => ~Exists(src, Root)
                  /\ startupErr = "replica" => ~Exists(rep, Root))
    /\ [][pc = "stopped" => pc' = "stopped"]_vars
    /\ [][rep' # rep => pc \in {"scanSrc", "scanRep"}]_vars

\* main() has returned because the replica root is missing
C9_Witness ==
    /\ pc = "stopped"
    /\ startupErr = "replica"
    /\ Exists(src, Root) /\ Children(src, Root) # {}

\* C10: once the startup check has passed main() never leaves the cycle
\* of scanning, reporting and sleeping, whatever INTERVAL_TIME is
C10_LoopNeverExits ==
    (pc # "init" /\ startupErr = "none") =>
        pc \in {"scanSrc", "scanRep", "reporting", "sleeping"}

\* the counters a first mirror of the source tree must show
FirstMirrorStats ==
    [k \in Keys |->
        CASE k = "Files created" ->
                Cardinality({ p \in Paths : IsFile(src, p) })
          [] k = "Directories created" ->
                Cardinality({ p \in Paths : IsDir(src, p) })
          [] OTHER -> 0]

\* C11: a pass that began with an empty replica root and in which nothing
\* failed counts one created file per source file and one created
\* directory per source directory and nothing else, reports exactly that,
\* and every replica file has the size and time of its source file
C11_FirstMirrorCounts ==
    /\ (PassDone /\ emptyAtStart /\ failed = 0) =>
          /\ changes_stats = FirstMirrorStats
          /\ \A p \in Paths : IsFile(src, p) =>
                /\ IsFile(rep, p)
                /\ SizeOf(rep[p].content) = SizeOf(src[p].content)
                /\ rep[p].mtime = src[p].mtime
    /\ (pc = "sleeping" /\ emptyAtStart /\ failed = 0) =>
          reported = FirstMirrorStats

\* a directory holding a file has been mirrored into an empty replica
C11_Witness ==
    /\ pc = "sleeping"
    /\ emptyAtStart
    /\ failed = 0
    /\ reported["Files created"] >= 1
    /\ reported["Directories created"] >= 1
    /\ \E p \in Paths : Len(p) = 2 /\ IsFile(rep, p)

\* one iteration of the replica walk is taken for p
ReplicaVisitStep(p) == pc = "scanRep" /\ p \in pending /\ p \notin pending'

\* C12: an rmtree that succeeds on an orphan directory removes it and all
\* below it, adds one to Directories deleted and to nothing else and leaves
\* the rest of the replica in place; the walk never yields an entry that
\* is gone, so what went with the directory is neither counted nor failed on
C12_OrphanDirAsUnit ==
    /\ [][\A p \in Paths :
            (ReplicaVisitStep(p) /\ IsDir(rep, p) /\ ~Exists(src, p) /\ ev'.ok)
            => /\ \A q \in Paths : IsPrefix(p, q) => ~Exists(rep', q)
               /\ \A q \in Paths : ~IsPrefix(p, q) => rep'[q].kind = rep[q].kind
               /\ changes_stats' = Incr(changes_stats, "Directories deleted")
         ]_vars
    /\ [](pc = "scanRep" => \A p \in pending : Exists(rep, p))
    /\ [](pc \in {"scanRep", "reporting", "sleeping"} =>
            succ["Files deleted"] + succ["Directories deleted"]
              = Cardinality({ q \in visitedRep : ~Exists(rep, q) }))

\* a pass has removed an orphan directory together with an entry in it
\* and counted one deleted directory and nothing else
C12_Witness ==
    /\ PassDone
    /\ ev.walk = "replica" /\ ev.action = "DELETE_DIR" /\ ev.ok
    /\ ev.gone >= 2
    /\ changes_stats = [ZeroStats EXCEPT !["Directories deleted"] = 1]

\* C13: a copy of a source file that succeeds adds one to exactly one
\* counter, Files created when the replica path did not exist at the visit
\* and Files changed/copied when it did; a replica file of another size
\* than the source file is overwritten and counted as changed/copied
C13_CreatedVersusUpdated ==
    /\ [][\A p \in Paths :
            (SourceVisitStep(p) /\ IsFile(src, p)
               /\ ev'.action # "NONE" /\ ev'.ok)
            => changes_stats' =
                 Incr(changes_stats,
                      IF Exists(rep, p) THEN "Files changed/copied"
                      ELSE "Files created")
         ]_vars
    /\ [][\A p \in Paths :
            (SourceVisitStep(p) /\ IsFile(src, p) /\ IsFile(rep, p)
               /\ StSize(src[p]) # StSize(rep[p]) /\ failures' = failures)
            => /\ changes_stats' = Incr(changes_stats, "Files changed/copied")
               /\ rep'[p] = src[p]
         ]_vars

\* a pass after the first has overwritten one replica file and created none
C13_Witness ==
    /\ pc = "reporting" /\ passes = 1
    /\ ev.walk = "replica"
    /\ changes_stats = [ZeroStats EXCEPT !["Files changed/copied"] = 1]
    /\ \E p \in copied : IsFile(src, p) /\ rep[p] = src[p]

\* C14: when write_stats_to_logging_file returns, each of the five counters
\* is 0 and the keys of the dictionary are the five it was built with,
\* whatever the counters held; they stay so until the next pass begins
C14_ReportResets ==
    /\ [][(pc = "reporting" /\ pc' # "reporting")
            => /\ DOMAIN changes_stats' = DOMAIN changes_stats
               /\ DOMAIN changes_stats' = Keys
               /\ \A k \in Keys : changes_stats'[k] = 0
         ]_vars
    /\ [](pc = "sleeping" => \A k \in Keys : changes_stats[k] = 0)
    /\ [](DOMAIN changes_stats = Keys)

\* a report of several non-zero counters has left them all at zero
C14_Witness ==
    /\ pc = "sleeping"
    /\ Cardinality({ k \in Keys : reported[k] > 0 }) >= 2
    /\ \E k \in Keys : reported[k] >= 2
    /\ changes_stats = ZeroStats

\* C15: a copy applied for a source file whose parent directory is missing
\* in the replica creates the missing directories and places the file
C15_ImplicitParentCreation ==
    [][\A p \in Paths :
         (SourceVisitStep(p) /\ ev'.action \in {"CREATE_FILE", "UPDATE_FILE"}
            /\ ~Exists(rep, Parent(p)) /\ failures' = failures)
         => /\ IsDir(rep', Parent(p))
            /\ IsFile(rep', p)
            /\ ev'.ok
      ]_vars

\* C16: a step of the replica walk removes no entry whose source path
\* exists and leaves every such file as it was (a directory keeps its kind;
\* its modification time moves when an orphan is removed from it), and it
\* creates and rewrites nothing; a step of the source walk removes nothing
C16_WalksDecoupled ==
    /\ [][pc = "scanRep" =>
            \A q \in Paths :
               /\ Exists(src, q) => rep'[q].kind = rep[q].kind
               /\ (Exists(src, q) /\ IsFile(rep, q)) => rep'[q] = rep[q]
               /\ ~Exists(rep, q) => ~Exists(rep', q)
               /\ (IsFile(rep, q) /\ Exists(rep', q)) => rep'[q] = rep[q]
         ]_vars
    /\ [][pc = "scanSrc" =>
            \A q \in Paths : Exists(rep, q) => rep'[q].kind = rep[q].kind
         ]_vars

\* the replica walk has removed an orphan from a directory that the source
\* has too, and the directory stands
C16_Witness ==
    /\ ev.walk = "replica" /\ ev.ok /\ ev.action # "NONE"
    /\ Len(ev.path) = 2
    /\ IsDir(src, Parent(ev.path)) /\ IsDir(rep, Parent(ev.path))
    /\ ~Exists(rep, ev.path)

\* C17: the source walk yields a directory before anything below it, so an
\* entry is visited after its parent's mkdir, if any, was applied; while
\* nothing has failed in the pass, a copy or mkdir is attempted only where
\* the parent path exists in the replica, and one that succeeds was made
\* into a directory
C17_TopDownOrder ==
    /\ [][\A p \in Paths :
            SourceVisitStep(p) => (Parent(p) = Root \/ Parent(p) \in visitedSrc)
         ]_vars
    /\ [][\A p \in Paths :
            (SourceVisitStep(p) /\ ev'.action # "NONE" /\ failed = 0)
            => /\ Exists(rep, Parent(p))
               /\ ev'.ok => IsDir(rep, Parent(p))
         ]_vars

\* a file at depth two has been copied into a directory that the same
\* pass created, without any failure
C17_Witness ==
    /\ pc = "scanSrc" /\ failed = 0
    /\ ev.walk = "source" /\ ev.action = "CREATE_FILE" /\ ev.ok
    /\ Len(ev.path) = 2
    /\ succ["Directories created"] = 1
    /\ IsFile(rep, ev.path)

\* C18: an entry is visited, and so its action attempted, at most once in a
\* pass; and once failures have stopped, from some pass on every pass ends
\* with all counters at zero, having performed no action
C18_EventualQuiescence ==
    /\ [][\A p \in Paths :
            /\ SourceVisitStep(p) => p \notin visitedSrc
            /\ ReplicaVisitStep(p) => p \notin visitedRep
         ]_vars
    /\ <>[](PassDone => (changes_stats = ZeroStats /\ failed = 0))

\* C19: no step of any pass, whether its action succeeds or fails, creates,
\* changes or removes an entry of the source tree
C19_SourceUntouched == [][src' = src]_vars

\* two passes have been reported in which actions were applied, one of
\* them having failed, and the replica still differs from the source
C19_Witness ==
    /\ pc = "sleeping" /\ passes >= 2
    /\ acted /\ failures >= 1
    /\ \E p \in Paths : Exists(src, p)
    /\ reported # ZeroStats

\* main() assigns interval once, before the loop, and never again
IntervalFixed == [][pc # "init" => interval' = interval]_vars

\* C20 as stated: the interval is INTERVAL_TIME * 86400 when the days flag
\* is given and INTERVAL_TIME * 60 when the minutes flag is given or when
\* neither is, computed once at startup
C20_SleepInterval ==
    /\ [][pc = "init" =>
            /\ args.days => interval' = args.interval * 86400
            /\ (args.minutes \/ (~args.days /\ ~args.minutes))
                  => interval' = args.interval * 60
         ]_vars
    /\ IntervalFixed

\* C20: the interval is INTERVAL_TIME * 86400 when the days flag is given,
\* with or without the minutes flag, and INTERVAL_TIME * 60 when it is not;
\* it is computed once at startup and every sleep of the run is given it
C20_SleepIntervalDaysFirst ==
    /\ [][pc = "init" =>
            interval' = IF args.days THEN args.interval * 86400
                        ELSE args.interval * 60
         ]_vars
    /\ IntervalFixed

\* the run sleeps for the second time, for a number of days
C20_Witness ==
    /\ pc = "sleeping" /\ passes >= 2
    /\ interval = MaxAmount * 86400

====
